---- MODULE Spec2Model ----
(***************************************************************************)
(* Selection / popup coordination, action dispatch and change tracking of  *)
(* the editor built around EditorContainer.tsx:                            *)
(*   useSelectionHandling.ts   gesture flags, check / show / hide timers   *)
(*   EditorContainer.tsx       popup state, click-outside, shortcuts       *)
(*   TextSelectionPopup.tsx    handleAIAction and the instructions input   *)
(*   useTextChangeTracking.ts  debounced change tracker                    *)
(*   useActionHistory.ts       bounded action history                      *)
(*   highlightUtils.ts         highlight list                              *)
(* Time is counted in ticks of 50 ms, the greatest common divisor of the   *)
(* delays in the code.  A text is a sequence of one-character strings.     *)
(***************************************************************************)
EXTENDS Integers, Sequences, FiniteSets, TLC

VARIABLES
    doc,                \* text of the (single paragraph) document
    sel,                \* editor.state.selection: <<from, to>>, ProseMirror positions
    domSel,             \* window.getSelection(): "collapsed", "range" or "zero" (range, degenerate rect)
    focus,              \* document.activeElement: "editor", "popup" or "other"
    pressed,            \* the mouse button is down
    isSelecting,        \* useSelectionHandling: isSelecting.current
    isDragging,         \* useSelectionHandling: isDragging.current
    sinceMouseUp,       \* ticks since lastMouseUpTime.current, saturating
    timers,             \* pending setTimeout callbacks of the selection engine and the popup
    showPopup,          \* EditorContainer state
    selectedText,       \* EditorContainer state: a text or Null
    selectionCoords,    \* EditorContainer state: TRUE when not null
    isAiProcessing,     \* EditorContainer state
    selectionRange,     \* useSelectionHandling state, only ever tested for null: SomeRange or NoRange
    actionHistory,      \* useActionHistory state, newest first
    highlights,         \* persistentHighlight extension storage
    isLoading,          \* TextSelectionPopup state
    additionalInstructions, \* TextSelectionPopup state
    showHistory,        \* TextSelectionPopup state: the recent-actions list is open
    inflight,           \* invocations of handleAIAction awaiting transformText
    previousContent,    \* textChangeTracker.previousContent
    ignoreNextChange,   \* textChangeTracker.ignoreNextChange
    isTracking,         \* textChangeTracker.isTracking
    changeTimer,        \* textChangeTracker.changeTimer: the pending debounce callback or NoTimer
    editHistory,        \* localStorage 'editHistory', newest first
    popupBox,           \* the popup element: the position asked for, its size, the viewport, style.left/top
    touch,              \* touchStartPos of the hook with touch handlers, and what the finger did since
    remote,             \* logEditHistory: the POSTs to /api/history awaited and how the calls settled
    server,             \* /api/history: the log file and the POST requests being handled
    obs                 \* observations of the last steps, read by the properties only

vars == <<doc, sel, domSel, focus, pressed, isSelecting, isDragging, sinceMouseUp,
          timers, showPopup, selectedText, selectionCoords, isAiProcessing,
          selectionRange, actionHistory, highlights, isLoading, additionalInstructions, showHistory,
          inflight, previousContent, ignoreNextChange, isTracking, changeTimer, editHistory,
          popupBox, touch, remote, server, obs>>

gestureVars == <<pressed, isSelecting, isDragging, sinceMouseUp>>
popupVars   == <<isLoading, additionalInstructions, showHistory, inflight>>
trackVars   == <<previousContent, ignoreNextChange, isTracking, changeTimer>>
logVars     == <<actionHistory, editHistory>>
containerVars == <<showPopup, selectedText, selectionCoords, highlights>>
sideVars    == <<popupBox, touch, remote, server>>

----------------------------------------------------------------------------
\* Bounds of the model.
MaxTimers     == 2      \* pending timers of the selection engine
MaxPopupTimers == 2     \* pending timers of the action dispatcher
MaxActTimers  == 1      \* pending timers of the selection engine in runs with an invocation
MaxHighlights == 2      \* stored highlights
MaxShows      == 2      \* counted show requests for one settled selection
MaxActions    == 1      \* invocations of handleAIAction in one run
MaxReapplied  == 2      \* invocations in one run that re-applies recent actions
MaxDocLen     == 4      \* characters in the document
MaxManualLen  == 5      \* characters typed into the one-file editor
MaxManualLogs == 2      \* entries logged by trackManualEdits in one run
ViewportWidthPx  == 400 \* window.innerWidth of the runs that place the popup
ViewportHeightPx == 300 \* window.innerHeight of those runs
PositionStepPx   == 5   \* grid of the positions asked for

\* null: of a text and of a range
Null    == <<"null">>
NoRange == <<0, 0>>
SomeRange == <<1, 1>>
NoTimer == [rem |-> 0 - 1, content |-> <<>>, byAI |-> FALSE]
NoBox   == [set |-> FALSE]
NoTouch == [down |-> FALSE, start |-> <<>>, far |-> FALSE]
NoRemote == [host |-> <<"localhost">>, posts |-> <<>>, settled |-> <<>>]
NoServer == [file |-> [state |-> "json", events |-> <<>>], reqs |-> <<>>]

Ticks(ms) == ms \div 50

\* Delays of the code, in milliseconds.
CheckDelayMs     == 150
ShowDelayMs      == 100
HideDelayMs      == 300
DragEndDelayMs   == 200
HighlightClickMs == 50
MouseUpSettleMs  == 100
DebounceMs       == 500
CloseSignalMs    == 500
AiCompletedMs    == 500
MAX_ACTION_HISTORY == 10
EDIT_HISTORY_LIMIT == 100
ManualDebounceMs == 1000
IgnoreResetMs    == 2000
SignificantChars == 3
PopupShiftPx     == 260
PopupGapPx       == 6
ViewportMarginPx == 10

----------------------------------------------------------------------------
\* Texts.
Trim(s) ==
    LET isSp(i) == s[i] = " "
        first == IF \E i \in 1..Len(s) : ~isSp(i)
                 THEN CHOOSE i \in 1..Len(s) : ~isSp(i) /\ \A j \in 1..(i-1) : isSp(j)
                 ELSE Len(s) + 1
        last  == IF \E i \in 1..Len(s) : ~isSp(i)
                 THEN CHOOSE i \in 1..Len(s) : ~isSp(i) /\ \A j \in (i+1)..Len(s) : isSp(j)
                 ELSE 0
    IN  SubSeq(s, first, last)

\* doc.textBetween(from, to) of a one-paragraph document: position p is before
\* character p, the paragraph's content starts at position 1.
textBetween(d, from, to) == SubSeq(d, from, to - 1)

\* editor.state.doc.content.size of a one-paragraph document.
docSize(d) == Len(d) + 2

Truthy(t) == t # Null /\ t # <<>>

----------------------------------------------------------------------------
\* selectionUtils
getSelectionRange == IF sel[1] = sel[2] THEN NoRange ELSE sel

getSelectedText ==
    IF getSelectionRange = NoRange THEN <<>> ELSE textBetween(doc, sel[1], sel[2])

isValidSelectionForPopup ==
    getSelectionRange # NoRange /\ Len(Trim(getSelectedText)) > 0

\* getSelectionRect(): the DOM selection always has a range here; a collapsed
\* or "zero" selection has a rectangle of width 0.
rectDegenerate == domSel # "range"

\* The popup is rendered (TextSelectionPopup isVisible).
PopupVisible == showPopup /\ Truthy(selectedText) /\ selectionCoords

----------------------------------------------------------------------------
\* highlightUtils
addHighlight(hs, from, to) ==
    IF from = to THEN hs ELSE Append(hs, [from |-> from, to |-> to])

highlightSelection(hs) ==
    IF sel[1] = sel[2] THEN hs ELSE addHighlight(hs, sel[1], sel[2])

clearAllHighlights(hs) == <<>>

\* decorations of the PersistentHighlight plugin: the inline decorations it
\* hands to DecorationSet.create for the stored highlights.
NotEmptyRange(h) == h.from # h.to
decorations(hs) == SelectSeq(hs, NotEmptyRange)

\* A highlight that the decoration plugin can draw inside the document.
Drawable(h) == h.from < h.to /\ h.to <= Len(doc) + 1

----------------------------------------------------------------------------
\* EditorContainer: the popup state as one record, so that handlers compose.
Container ==
    [showPopup |-> showPopup, selectedText |-> selectedText,
     selectionCoords |-> selectionCoords, highlights |-> highlights]

\* handleShowPopup(shouldShow); proc is the isAiProcessing its closure captured.
handleShowPopup(c, shouldShow, proc) ==
    IF ~shouldShow /\ proc THEN c
    ELSE IF shouldShow
         THEN [showPopup |-> TRUE, selectedText |-> getSelectedText,
               selectionCoords |-> TRUE,
               highlights |-> highlightSelection(c.highlights)]
         ELSE [c EXCEPT !.showPopup = FALSE, !.selectedText = Null,
                        !.selectionCoords = FALSE]

SetContainer(c) ==
    /\ showPopup' = c.showPopup
    /\ selectedText' = c.selectedText
    /\ selectionCoords' = c.selectionCoords
    /\ highlights' = c.highlights

\* A state change of EditorContainer re-renders it; the effect of
\* useTextChangeTracking depends on the inline onContentChange and is re-run:
\* its cleanup clears the pending debounce timer.
RerenderCleanup(rerendered, ct) == IF rerendered THEN NoTimer ELSE ct

\* setSelectionRange(range)
setSelectionRange(range) == IF range = NoRange THEN NoRange ELSE SomeRange

\* setSelectionRange(range) and the setters of handleShowPopup: a new object
\* ({from, to}, {x, y}) or a changed value re-renders.
ShowRerenders(c, c2, shouldShow, proc) ==
    \/ shouldShow
    \/ (~proc /\ (c2.showPopup # c.showPopup \/ c2.selectedText # c.selectedText
                  \/ c2.selectionCoords # c.selectionCoords))

----------------------------------------------------------------------------
\* useSelectionHandling: timers.  ref says that the timer is the one its ref
\* (selectionCheckTimer, selectionEndTimeout, popupTimeoutRef) points to; gen
\* and proc are what the callback inherited: the selection-change event it
\* descends from ("cur" the latest, "old" an earlier one, "none" another
\* origin) and the isAiProcessing its closure captured.
Timer(kind, ms, ref, gen, proc) ==
    [kind |-> kind, rem |-> Ticks(ms), ref |-> ref, gen |-> gen, proc |-> proc]

RemoveAt(s, i) == SubSeq(s, 1, i - 1) \o SubSeq(s, i + 1, Len(s))

EngineKinds == {"check", "show", "hide", "unselect"}
\* The bounds on the pending timers.
Bounded(ts) ==
    /\ Cardinality({i \in DOMAIN ts : ts[i].kind \in EngineKinds}) <= MaxTimers
    /\ Cardinality({i \in DOMAIN ts : ts[i].kind \notin EngineKinds}) <= MaxPopupTimers

\* The pending timers are a multiset: they are kept in one fixed order.
KindNo(k) ==
    CASE k = "check" -> 0 [] k = "show" -> 1 [] k = "hide" -> 2
      [] k = "unselect" -> 3 [] k = "close" -> 4 [] OTHER -> 5
GenNo(g) == CASE g = "none" -> 0 [] g = "cur" -> 1 [] OTHER -> 2
TimerKey(t) ==
    (((t.rem * 6 + KindNo(t.kind)) * 3 + GenNo(t.gen)) * 2 + (IF t.ref THEN 1 ELSE 0)) * 2
        + (IF t.proc THEN 1 ELSE 0)
RECURSIVE Canon(_)
Canon(ts) ==
    IF ts = <<>> THEN <<>>
    ELSE LET m == CHOOSE i \in DOMAIN ts : \A j \in DOMAIN ts : TimerKey(ts[i]) <= TimerKey(ts[j])
         IN  <<ts[m]>> \o Canon(RemoveAt(ts, m))

\* ref.current = setTimeout(...): the ref leaves the timer it pointed to.
SetRef(ts, t) ==
    Append([i \in DOMAIN ts |-> IF ts[i].kind = t.kind THEN [ts[i] EXCEPT !.ref = FALSE] ELSE ts[i]], t)

NotCheckRef(t) == ~(t.kind = "check" /\ t.ref)
\* clearTimeout(selectionCheckTimer.current)
ClearCheckTimer(ts) == SelectSeq(ts, NotCheckRef)

NotRef(t) == ~t.ref
\* cleanup of the listener effect of useSelectionHandling, re-run when
\* onShowPopup changes identity (isAiProcessing changed)
EffectCleanup(ts) == SelectSeq(ts, NotRef)

\* Timers started by an earlier selection-change event.
MarkOld(ts) ==
    [i \in DOMAIN ts |-> IF ts[i].gen = "cur" THEN [ts[i] EXCEPT !.gen = "old"] ELSE ts[i]]

\* handleSelectionChange
handleSelectionChange(ts) ==
    IF isSelecting \/ isDragging THEN ts
    ELSE SetRef(MarkOld(ClearCheckTimer(ts)),
                Timer("check", CheckDelayMs, TRUE, "cur", isAiProcessing))

\* onSelectionChange, the document 'selectionchange' listener
onSelectionChange(ts) ==
    IF isSelecting \/ isDragging THEN ts
    ELSE IF sinceMouseUp < Ticks(MouseUpSettleMs) THEN ts
    ELSE handleSelectionChange(ts)

\* checkSelectionForPopup, run by a check timer that carried gen and proc;
\* ts are the other pending timers.  The result is the timers and the
\* container state it leaves.
checkSelectionForPopup(ts, c, gen, proc) ==
    LET ts1 == ClearCheckTimer(ts) IN
    IF domSel = "collapsed" \/ getSelectionRange = NoRange
    THEN IF PopupVisible /\ focus = "popup"
         THEN [timers |-> ts1, c |-> c]
         ELSE [timers |-> SetRef(ts1, Timer("hide", HideDelayMs, TRUE, gen, proc)),
               c |-> c]
    ELSE IF isValidSelectionForPopup
         THEN IF isSelecting \/ isDragging
              THEN [timers |-> ts1, c |-> c]
              ELSE IF rectDegenerate
                   THEN [timers |-> ts1, c |-> c]
                   ELSE [timers |-> SetRef(ts1, Timer("show", ShowDelayMs, TRUE, gen, proc)),
                         c |-> c]
         ELSE [timers |-> ts1,
               c |-> LET c2 == handleShowPopup(c, FALSE, proc)
                     IN  [c2 EXCEPT !.highlights = clearAllHighlights(c2.highlights)]]

----------------------------------------------------------------------------
\* Observations: shows counts the show requests made by timers for the
\* selection as it stands, last names the outcome of the last step when it
\* was a step of the action dispatcher or of the change tracker, invoked
\* counts the invocations of handleAIAction, dropped tells that a
\* selection-change signal was filtered and that checkSelectionForPopup has
\* not run since with the pointer released.
Observe(shows, last) ==
    [shows |-> shows, last |-> last, invoked |-> obs.invoked, dropped |-> obs.dropped]

\* A selection-change signal is filtered by both listeners, or by the
\* document listener alone (a change of the DOM selection only).
Filtered == isSelecting \/ isDragging
FilteredDom == Filtered \/ sinceMouseUp < Ticks(MouseUpSettleMs)
CountShow == IF obs.shows < MaxShows THEN obs.shows + 1 ELSE obs.shows

\* The selections the user makes: a caret at the start of the document, or a
\* range; the rectangle of a range over the first character may be degenerate.
Selections(d) ==
    {p \in (1..(Len(d) + 1)) \X (1..(Len(d) + 1)) : p[1] < p[2] \/ p = <<1, 1>>}

\* The selections of the user in runs of the selection engine alone: a caret
\* or one character.
CharSelections(d) == {p \in Selections(d) : p[2] - p[1] <= 1}

DomOf(s) ==
    IF s[1] = s[2] THEN {"collapsed"}
    ELSE IF s = <<1, 2>> THEN {"range", "zero"} ELSE {"range"}

\* The runs start from a document the user has typed, two characters that
\* the change tracker has already recorded.
InitDoc == <<"a", " ">>

Init ==
    /\ doc = InitDoc
    /\ sel = <<1, 1>>
    /\ domSel = "collapsed"
    /\ focus = "editor"
    /\ pressed = FALSE
    /\ isSelecting = FALSE
    /\ isDragging = FALSE
    /\ sinceMouseUp = Ticks(MouseUpSettleMs)
    /\ timers = <<>>
    /\ showPopup = FALSE
    /\ selectedText = Null
    /\ selectionCoords = FALSE
    /\ isAiProcessing = FALSE
    /\ selectionRange = NoRange
    /\ popupBox = NoBox
    /\ touch = NoTouch
    /\ remote = NoRemote
    /\ server = NoServer
    /\ actionHistory = <<>>
    /\ highlights = <<>>
    /\ isLoading = FALSE
    /\ additionalInstructions = ""
    /\ showHistory = FALSE
    /\ inflight = <<>>
    /\ previousContent = InitDoc
    /\ ignoreNextChange = FALSE
    /\ isTracking = TRUE
    /\ changeTimer = NoTimer
    /\ editHistory = <<>>
    /\ obs = [shows |-> 0, last |-> "other", invoked |-> 0, dropped |-> FALSE]

----------------------------------------------------------------------------
\* Events of the user in the editor and on the page.

\* The selection of the editor changes (keyboard, or pointer while pressed):
\* 'selectionUpdate' of the editor and 'selectionchange' of the document.
SelectionChange(s, d) ==
    /\ focus = "editor"
    /\ s # sel
    /\ d \in DomOf(s)
    /\ Bounded(handleSelectionChange(timers))
    /\ sel' = s
    /\ domSel' = d
    /\ timers' = Canon(handleSelectionChange(timers))
    /\ obs' = [Observe(0, "other") EXCEPT !.dropped = @ \/ Filtered]
    /\ UNCHANGED <<doc, focus, gestureVars, containerVars, isAiProcessing,
                   selectionRange, sideVars, logVars, popupVars, trackVars>>

\* handleMouseDown on the editor (onHighlight: on a drawn highlight) and
\* handleClickOutside, which returns for a target inside the editor.
MouseDownEditor(onHighlight) ==
    /\ ~pressed
    /\ onHighlight => \E i \in DOMAIN highlights : Drawable(highlights[i])
    /\ onHighlight => Bounded(Append(timers, Timer("unselect", HighlightClickMs, FALSE, "none", FALSE)))
    /\ pressed' = TRUE
    /\ isSelecting' = TRUE
    /\ focus' = "editor"
    /\ timers' = IF onHighlight
                 THEN Canon(Append(timers, Timer("unselect", HighlightClickMs, FALSE, "none", FALSE)))
                 ELSE timers
    /\ obs' = Observe(0, "other")
    /\ UNCHANGED <<doc, sel, domSel, isDragging, sinceMouseUp, containerVars,
                   isAiProcessing, selectionRange, sideVars, logVars, popupVars, trackVars>>

\* handleClickOutside for a target outside the editor and the popup.
MouseDownOutside ==
    /\ ~pressed
    /\ pressed' = TRUE
    /\ focus' = "other"
    /\ showPopup' = IF ~isAiProcessing /\ showPopup THEN FALSE ELSE showPopup
    /\ changeTimer' = RerenderCleanup(showPopup' # showPopup, changeTimer)
    /\ obs' = Observe(obs.shows, "other")
    /\ UNCHANGED <<doc, sel, domSel, isSelecting, isDragging, sinceMouseUp, timers,
                   selectedText, selectionCoords, highlights, isAiProcessing,
                   selectionRange, sideVars, logVars, popupVars, previousContent,
                   ignoreNextChange, isTracking>>

\* Every mouse-down would reach the container.
ReachesContainerAlways(target) == TRUE

\* The targets whose mouse-down reaches onMouseDown={handleMouseDown} of the
\* editor container: the popup is rendered beside the container, not inside
\* it, and its own handlers stop the event.
ReachesContainer(target) == target \in {"editor", "highlight"}

\* handleMouseDown: isSelecting.current after the call, for a target on the
\* input of the popup, elsewhere in the popup, or in the editor.
handleMouseDown(target, selecting) ==
    IF target = "input" THEN FALSE
    ELSE IF target = "popup" THEN selecting
    ELSE TRUE

\* Mouse-down on the popup: handlePopupMouseDown, and the onMouseDown of the
\* input, which takes the focus unless it is disabled.
MouseDownPopup(target) ==
    /\ ~pressed
    /\ PopupVisible
    /\ pressed' = TRUE
    /\ isSelecting' = IF ReachesContainer(target)
                      THEN handleMouseDown(target, isSelecting) ELSE isSelecting
    /\ focus' = IF target = "input" /\ ~isLoading THEN "popup" ELSE focus
    /\ domSel' = IF focus' # focus THEN "collapsed" ELSE domSel
    /\ timers' = IF domSel' # domSel THEN Canon(onSelectionChange(timers)) ELSE timers
    /\ Bounded(timers')
    /\ obs' = [Observe(obs.shows, "popupDown")
                 EXCEPT !.dropped = @ \/ (domSel' # domSel /\ FilteredDom)]
    /\ UNCHANGED <<doc, sel, isDragging, sinceMouseUp, containerVars, isAiProcessing,
                   selectionRange, sideVars, logVars, popupVars, trackVars>>

\* handleMouseUp: once from the container's onMouseUp and once from the
\* document listener when released over the editor, once when released
\* elsewhere on the page; the popup stops the event (handlePopupEvent).
MouseUpCalls(where) == IF where = "editor" THEN 2 ELSE IF where = "outside" THEN 1 ELSE 0

MouseUp(where) ==
    LET n == MouseUpCalls(where)
        t == Timer("check", CheckDelayMs, FALSE, "none", isAiProcessing)
    IN  /\ pressed
        /\ ~isDragging
        /\ where = "popup" => PopupVisible
        /\ Bounded(timers \o [i \in 1..n |-> t])
        /\ pressed' = FALSE
        /\ isSelecting' = IF n > 0 THEN FALSE ELSE isSelecting
        /\ sinceMouseUp' = IF n > 0 THEN 0 ELSE sinceMouseUp
        /\ timers' = Canon(timers \o [i \in 1..n |-> t])
        /\ obs' = Observe(obs.shows, "other")
        /\ UNCHANGED <<doc, sel, domSel, focus, isDragging, containerVars,
                       isAiProcessing, selectionRange, sideVars, logVars, popupVars, trackVars>>

\* handleDragStart: the pressed pointer starts to drag the selected text.
DragStart ==
    LET c2 == handleShowPopup(Container, FALSE, isAiProcessing) IN
    /\ pressed
    /\ isSelecting
    /\ ~isDragging
    /\ getSelectionRange # NoRange
    /\ isDragging' = TRUE
    /\ SetContainer(c2)
    /\ changeTimer' = RerenderCleanup(ShowRerenders(Container, c2, FALSE, isAiProcessing), changeTimer)
    /\ obs' = Observe(0, "other")
    /\ UNCHANGED <<doc, sel, domSel, focus, pressed, isSelecting, sinceMouseUp, timers,
                   isAiProcessing, selectionRange, sideVars, logVars, popupVars,
                   previousContent, ignoreNextChange, isTracking>>

\* handleDragEnd, from the container's onDragEnd and from the document
\* listener; no mouseup follows a drag.
DragEnd ==
    LET t == Timer("check", DragEndDelayMs, FALSE, "none", isAiProcessing) IN
    /\ isDragging
    /\ Bounded(timers \o <<t, t>>)
    /\ pressed' = FALSE
    /\ isDragging' = FALSE
    /\ sinceMouseUp' = 0
    /\ timers' = Canon(timers \o <<t, t>>)
    /\ obs' = Observe(obs.shows, "other")
    /\ UNCHANGED <<doc, sel, domSel, focus, isSelecting, containerVars,
                   isAiProcessing, selectionRange, sideVars, logVars, popupVars, trackVars>>

\* handleKeyboardShortcut: Escape
Escape ==
    /\ highlights' = clearAllHighlights(highlights)
    /\ obs' = Observe(obs.shows, "other")
    /\ UNCHANGED <<doc, sel, domSel, focus, gestureVars, timers, showPopup, selectedText,
                   selectionCoords, isAiProcessing, selectionRange, sideVars, logVars,
                   popupVars, trackVars>>

\* Ctrl+Shift+P: handleKeyDown of useSelectionHandling and
\* handleKeyboardShortcut of EditorContainer, which sets the same values.
\* With a collapsed selection getSelectionRange returns null and
\* getSelectedText the empty text: neither handler acts.
ForceShow ==
    LET c2 == handleShowPopup(Container, TRUE, isAiProcessing) IN
    IF getSelectionRange = NoRange
    THEN /\ obs' = Observe(obs.shows, "forceNone")
         /\ UNCHANGED <<doc, sel, domSel, focus, gestureVars, timers, containerVars,
                        isAiProcessing, selectionRange, sideVars, logVars, popupVars, trackVars>>
    ELSE /\ Len(c2.highlights) <= MaxHighlights
         /\ selectionRange' = setSelectionRange(getSelectionRange)
         /\ UNCHANGED sideVars
         /\ SetContainer(c2)
         /\ changeTimer' = RerenderCleanup(TRUE, changeTimer)
         /\ obs' = Observe(obs.shows, "force")
         /\ UNCHANGED <<doc, sel, domSel, focus, gestureVars, timers, isAiProcessing,
                        logVars, popupVars, previousContent, ignoreNextChange, isTracking>>

----------------------------------------------------------------------------
\* Events confined to the instructions input of the popup.  Its handlers stop
\* the mouse events, so handleMouseDown, handleMouseUp and handleClickOutside
\* do not act.  The document selection collapses when the input takes the
\* focus.
Instructions == {"", "x", "COMPLETED"}

FocusInput ==
    /\ PopupVisible
    /\ ~isLoading
    /\ focus # "popup"
    /\ focus' = "popup"
    /\ domSel' = "collapsed"
    /\ timers' = IF domSel' # domSel THEN Canon(onSelectionChange(timers)) ELSE timers
    /\ Bounded(timers')
    /\ obs' = [Observe(obs.shows, "other")
                 EXCEPT !.dropped = @ \/ (domSel' # domSel /\ FilteredDom)]
    /\ UNCHANGED <<doc, sel, gestureVars, containerVars, isAiProcessing,
                   selectionRange, sideVars, logVars, popupVars, trackVars>>

BlurInput ==
    /\ focus = "popup"
    /\ focus' = "other"
    /\ obs' = Observe(obs.shows, "other")
    /\ UNCHANGED <<doc, sel, domSel, gestureVars, timers, containerVars,
                   isAiProcessing, selectionRange, sideVars, logVars, popupVars, trackVars>>

\* handleInputChange
TypeInstructions(v) ==
    /\ PopupVisible
    /\ ~isLoading
    /\ focus = "popup"
    /\ v # additionalInstructions
    /\ additionalInstructions' = v
    /\ obs' = Observe(obs.shows, "other")
    /\ UNCHANGED <<doc, sel, domSel, focus, gestureVars, timers, containerVars,
                   isAiProcessing, selectionRange, sideVars, logVars, isLoading, showHistory,
                   inflight, trackVars>>

----------------------------------------------------------------------------
\* Timer callbacks of useSelectionHandling.

\* selectionCheckTimer and the timers of handleMouseUp / handleDragEnd
FireCheck(i) ==
    /\ i \in DOMAIN timers
    /\ timers[i].kind = "check"
    /\ timers[i].rem = 0
    /\ LET t  == timers[i]
           r  == checkSelectionForPopup(RemoveAt(timers, i), Container, t.gen, t.proc)
       IN  /\ timers' = Canon(r.timers)
           /\ SetContainer(r.c)
           /\ selectionRange' = setSelectionRange(getSelectionRange)
           /\ UNCHANGED sideVars
           /\ changeTimer' = RerenderCleanup(
                  getSelectionRange # NoRange \/ selectionRange # NoRange
                      \/ ShowRerenders(Container, r.c, FALSE, t.proc),
                  changeTimer)
           /\ obs' = [Observe(obs.shows, "other")
                        EXCEPT !.dropped = @ /\ (pressed \/ isDragging)]
    /\ UNCHANGED <<doc, sel, domSel, focus, gestureVars, isAiProcessing, logVars,
                   popupVars, previousContent, ignoreNextChange, isTracking>>

\* selectionEndTimeout: onShowPopup(true)
FireShow(i) ==
    /\ i \in DOMAIN timers
    /\ timers[i].kind = "show"
    /\ timers[i].rem = 0
    /\ LET t  == timers[i]
           c2 == handleShowPopup(Container, TRUE, t.proc)
       IN  /\ Len(c2.highlights) <= MaxHighlights
           /\ timers' = RemoveAt(timers, i)
           /\ SetContainer(c2)
           /\ changeTimer' = RerenderCleanup(TRUE, changeTimer)
           /\ obs' = Observe(CountShow, "other")
    /\ UNCHANGED <<doc, sel, domSel, focus, gestureVars, isAiProcessing,
                   selectionRange, sideVars, logVars, popupVars, previousContent,
                   ignoreNextChange, isTracking>>

\* popupTimeoutRef: onShowPopup(false); clearAllHighlights(editor)
FireHide(i) ==
    /\ i \in DOMAIN timers
    /\ timers[i].kind = "hide"
    /\ timers[i].rem = 0
    /\ LET t  == timers[i]
           c2 == handleShowPopup(Container, FALSE, t.proc)
       IN  /\ timers' = RemoveAt(timers, i)
           /\ SetContainer([c2 EXCEPT !.highlights = clearAllHighlights(c2.highlights)])
           /\ changeTimer' = RerenderCleanup(ShowRerenders(Container, c2, FALSE, t.proc), changeTimer)
           /\ obs' = Observe(obs.shows, "other")
    /\ UNCHANGED <<doc, sel, domSel, focus, gestureVars, isAiProcessing,
                   selectionRange, sideVars, logVars, popupVars, previousContent,
                   ignoreNextChange, isTracking>>

\* the timer of handleMouseDown on a highlight: isSelecting.current = false
FireUnselect(i) ==
    /\ i \in DOMAIN timers
    /\ timers[i].kind = "unselect"
    /\ timers[i].rem = 0
    /\ timers' = RemoveAt(timers, i)
    /\ isSelecting' = FALSE
    /\ obs' = Observe(obs.shows, "other")
    /\ UNCHANGED <<doc, sel, domSel, focus, pressed, isDragging, sinceMouseUp,
                   containerVars, isAiProcessing, selectionRange, sideVars, logVars,
                   popupVars, trackVars>>

\* 50 ms pass; a callback that is due runs before more time passes.
Tick ==
    /\ \A i \in DOMAIN timers : timers[i].rem > 0
    /\ changeTimer.rem # 0
    /\ timers # <<>> \/ changeTimer # NoTimer \/ sinceMouseUp < Ticks(MouseUpSettleMs)
    /\ timers' = Canon([i \in DOMAIN timers |-> [timers[i] EXCEPT !.rem = @ - 1]])
    /\ changeTimer' = IF changeTimer = NoTimer THEN NoTimer
                      ELSE [changeTimer EXCEPT !.rem = @ - 1]
    /\ sinceMouseUp' = IF sinceMouseUp < Ticks(MouseUpSettleMs)
                       THEN sinceMouseUp + 1 ELSE sinceMouseUp
    /\ obs' = Observe(obs.shows, "other")
    /\ UNCHANGED <<doc, sel, domSel, focus, pressed, isSelecting, isDragging,
                   containerVars, isAiProcessing, selectionRange, sideVars, logVars,
                   popupVars, previousContent, ignoreNextChange, isTracking>>

----------------------------------------------------------------------------
NextSel ==
    \/ \E s \in CharSelections(doc) : \E d \in {"collapsed", "range", "zero"} : SelectionChange(s, d)
    \/ \E h \in BOOLEAN : MouseDownEditor(h)
    \/ MouseDownOutside
    \/ \E w \in {"editor", "outside", "popup"} : MouseUp(w)
    \/ DragStart
    \/ DragEnd
    \/ Escape
    \/ ForceShow
    \/ FocusInput
    \/ BlurInput
    \/ \E i \in 1..(MaxTimers + MaxPopupTimers) : FireCheck(i)
    \/ \E i \in 1..(MaxTimers + MaxPopupTimers) : FireShow(i)
    \/ \E i \in 1..(MaxTimers + MaxPopupTimers) : FireHide(i)
    \/ \E i \in 1..(MaxTimers + MaxPopupTimers) : FireUnselect(i)
    \/ Tick

SpecSel == Init /\ [][NextSel]_vars

----------------------------------------------------------------------------
\* The gestures of the pointer, with the timers they start.  The callbacks of
\* setTimeout run when they are due and time passes: the event loop is fair
\* to them.  Nothing is assumed of the user.
NextGesture ==
    \/ \E s \in CharSelections(doc) : \E d \in {"collapsed", "range"} : SelectionChange(s, d)
    \/ \E h \in BOOLEAN : MouseDownEditor(h)
    \/ \E target \in {"input", "popup"} : MouseDownPopup(target)
    \/ \E w \in {"editor", "popup"} : MouseUp(w)
    \/ DragStart
    \/ DragEnd
    \/ ForceShow
    \/ \E i \in 1..MaxTimers : FireCheck(i)
    \/ \E i \in 1..MaxTimers : FireShow(i)
    \/ \E i \in 1..MaxTimers : FireHide(i)
    \/ \E i \in 1..MaxTimers : FireUnselect(i)
    \/ Tick

TimersRun ==
    /\ WF_vars(Tick)
    /\ \A i \in 1..MaxTimers :
          /\ WF_vars(FireCheck(i))
          /\ WF_vars(FireShow(i))
          /\ WF_vars(FireHide(i))
          /\ WF_vars(FireUnselect(i))

SpecGesture == Init /\ [][NextGesture]_vars /\ TimersRun

----------------------------------------------------------------------------
\* useTextChangeTracking

\* handleUpdate, with the content after the update; byAI tells that the update
\* belongs to a replacement made by handleAIAction.
handleUpdate(tr, content, byAI) ==
    IF tr.ignoreNextChange
    THEN [tr EXCEPT !.ignoreNextChange = FALSE, !.previousContent = content]
    ELSE [tr EXCEPT !.changeTimer = [rem |-> Ticks(DebounceMs), content |-> content, byAI |-> byAI]]

Tracker ==
    [previousContent |-> previousContent, ignoreNextChange |-> ignoreNextChange,
     changeTimer |-> changeTimer]

\* the debounce callback of handleUpdate
FireDebounce ==
    /\ changeTimer.rem = 0
    /\ changeTimer' = NoTimer
    /\ IF changeTimer.content # previousContent
       THEN /\ previousContent' = changeTimer.content
            /\ obs' = Observe(obs.shows, IF changeTimer.byAI THEN "reportAI" ELSE "report")
       ELSE /\ previousContent' = previousContent
            /\ obs' = Observe(obs.shows, "other")
    /\ UNCHANGED <<doc, sel, domSel, focus, gestureVars, timers, containerVars,
                   isAiProcessing, selectionRange, sideVars, logVars, popupVars, ignoreNextChange, isTracking>>

----------------------------------------------------------------------------
\* Edits of the user in the editor.
Delete(d, from, to) == SubSeq(d, 1, from - 1) \o SubSeq(d, to, Len(d))
Insert(d, pos, text) == SubSeq(d, 1, pos - 1) \o text \o SubSeq(d, pos, Len(d))

\* Backspace over a selected range: 'update' and 'selectionUpdate'.
DeleteSelection ==
    LET tr == handleUpdate(Tracker, Delete(doc, sel[1], sel[2]), FALSE) IN
    /\ focus = "editor"
    /\ getSelectionRange # NoRange
    /\ Bounded(handleSelectionChange(timers))
    /\ doc' = Delete(doc, sel[1], sel[2])
    /\ sel' = <<sel[1], sel[1]>>
    /\ domSel' = "collapsed"
    /\ timers' = Canon(handleSelectionChange(timers))
    /\ previousContent' = tr.previousContent
    /\ ignoreNextChange' = tr.ignoreNextChange
    /\ isTracking' = isTracking
    /\ changeTimer' = tr.changeTimer
    /\ obs' = Observe(0, "other")
    /\ UNCHANGED <<focus, gestureVars, containerVars, isAiProcessing,
                   selectionRange, sideVars, logVars, popupVars>>

----------------------------------------------------------------------------
\* useActionHistory
Take(s, n) == SubSeq(s, 1, IF Len(s) < n THEN Len(s) ELSE n)

addActionToHistoryUncapped(h, action, instructions, modelName) ==
    IF action = "" THEN h
    ELSE <<[action |-> action, instructions |-> instructions, modelName |-> modelName]>> \o h

addActionToHistory(h, action, instructions, modelName) ==
    IF action = "" THEN h
    ELSE LET newItem == [action |-> action, instructions |-> instructions, modelName |-> modelName]
             updatedHistory == <<newItem>> \o h
         IN  IF Len(updatedHistory) > MAX_ACTION_HISTORY
             THEN Take(updatedHistory, MAX_ACTION_HISTORY)
             ELSE updatedHistory

\* geminiService.logEditHistory: the entry goes to the front of 'editHistory'.
Undefined == "undefined"
OrUndefined(str) == IF str = "" THEN Undefined ELSE str

FormatAction(action) ==
    CASE action = "expand" -> "AI_EXPAND"
      [] action = "summarize" -> "AI_SUMMARIZE"
      [] action = "rephrase" -> "AI_REPHRASE"
      [] action = "revise" -> "AI_REVISE"
      [] action = "manual_add" -> "MANUAL_ADD"
      [] action = "manual_delete" -> "MANUAL_DELETE"
      [] OTHER -> "AI_ACTION"

logEditHistory(h, originalText, newText, action, instructions, modelName) ==
    IF action = "" THEN h
    ELSE Take(<<[action |-> FormatAction(action), originalText |-> originalText,
                 newText |-> newText, additionalInstructions |-> instructions,
                 modelName |-> modelName]>> \o h,
              EDIT_HISTORY_LIMIT)

\* EditorContainer.handleActionPerformed on the state it touches.
handleActionPerformed(st, action, instructions, modelName) ==
    IF action = "" THEN [st EXCEPT !.showPopup = FALSE]
    ELSE IF instructions = "STARTING" THEN [st EXCEPT !.isAiProcessing = TRUE]
    ELSE IF instructions = "COMPLETED"
         THEN [st EXCEPT !.timers = Append(@, Timer("aidone", AiCompletedMs, FALSE, "none", FALSE))]
    ELSE [st EXCEPT !.ignoreNextChange = TRUE,
                    !.actionHistory = addActionToHistory(@, action, instructions, modelName)]

\* It re-renders EditorContainer when a state setter changed a value;
\* setActionHistory always stores a new array.
ActionRerenders(st, st2, action, instructions) ==
    \/ st2.showPopup # st.showPopup
    \/ st2.isAiProcessing # st.isAiProcessing
    \/ (action # "" /\ instructions \notin {"STARTING", "COMPLETED"})

selectedModel == "gemini-2.0-flash"

----------------------------------------------------------------------------
\* TextSelectionPopup.handleAIAction
AIActions == {"expand", "summarize"}
Results   == {<<"b", "b">>}

\* A click on an action button (disabled while isLoading): handleAIAction up
\* to the await.  text is the prop of the popup, EditorContainer's
\* selectedText; setTextSelection({from, to}) changes nothing.
Invoke(action) ==
    /\ PopupVisible
    /\ ~isLoading
    /\ obs.invoked < MaxActions
    /\ isLoading' = TRUE
    /\ inflight' = Append(inflight,
                          [action |-> action,
                           instructions |-> additionalInstructions,
                           text |-> selectedText,
                           from |-> sel[1], to |-> sel[2],
                           originalText |-> textBetween(doc, sel[1], sel[2])])
    /\ obs' = [Observe(obs.shows, "other") EXCEPT !.invoked = @ + 1]
    /\ UNCHANGED <<doc, sel, domSel, focus, gestureVars, timers, containerVars,
                   isAiProcessing, selectionRange, sideVars, logVars, additionalInstructions,
                   showHistory, trackVars>>

\* The button that opens and closes the recent-actions list (disabled while
\* isLoading, rendered when the action history has items).
ToggleHistory ==
    /\ PopupVisible
    /\ ~isLoading
    /\ actionHistory # <<>>
    /\ showHistory' = ~showHistory
    /\ obs' = Observe(obs.shows, "other")
    /\ UNCHANGED <<doc, sel, domSel, focus, gestureVars, timers, containerVars,
                   isAiProcessing, selectionRange, sideVars, logVars, isLoading,
                   additionalInstructions, inflight, trackVars>>

\* applyHistoricalAction(item) from a button of the recent-actions list, which
\* is not disabled while isLoading: setAdditionalInstructions(item.instructions)
\* takes effect with the next render, handleAIAction(item.action) runs in the
\* render of the click and reads the additionalInstructions of that render.
applyHistoricalAction(i) ==
    /\ PopupVisible
    /\ showHistory
    /\ i \in DOMAIN actionHistory
    /\ obs.invoked < MaxReapplied
    /\ additionalInstructions' = actionHistory[i].instructions
    /\ isLoading' = TRUE
    /\ inflight' = Append(inflight,
                          [action |-> actionHistory[i].action,
                           instructions |-> additionalInstructions,
                           text |-> selectedText,
                           from |-> sel[1], to |-> sel[2],
                           originalText |-> textBetween(doc, sel[1], sel[2])])
    /\ obs' = [Observe(obs.shows, "reapply") EXCEPT !.invoked = @ + 1]
    /\ UNCHANGED <<doc, sel, domSel, focus, gestureVars, timers, containerVars,
                   isAiProcessing, selectionRange, sideVars, logVars, showHistory, trackVars>>

\* What the collaborator returned, as the observation names it.
Outcome(result) == IF result = <<>> THEN "empty" ELSE "success"

AlwaysSucceeded(result) == TRUE

\* if (result)
Succeeded(result) == result # <<>>

CloseTimer == Timer("close", CloseSignalMs, FALSE, "none", FALSE)

\* transformText resolves with a text, possibly empty: the rest of
\* handleAIAction, with the 'update' and 'selectionUpdate' events of the
\* replacement and the call of onActionPerformed.
Resolve(result) ==
    /\ inflight # <<>>
    /\ LET r   == inflight[1]
           ok  == Succeeded(result)
           hasSel == sel[1] # sel[2]
           doc1 == IF hasSel THEN Delete(doc, sel[1], sel[2]) ELSE doc
           insertPos == sel[1]
           doc2 == Insert(doc1, insertPos, result)
           tr1 == IF hasSel THEN handleUpdate(Tracker, doc1, TRUE) ELSE Tracker
           tr2 == handleUpdate(tr1, doc2, TRUE)
           st  == [showPopup |-> showPopup, isAiProcessing |-> isAiProcessing,
                   ignoreNextChange |-> tr2.ignoreNextChange,
                   actionHistory |-> actionHistory,
                   timers |-> handleSelectionChange(timers)]
           st2 == handleActionPerformed(st, r.action, r.instructions, selectedModel)
           ts2 == IF st2.isAiProcessing # isAiProcessing
                  THEN EffectCleanup(st2.timers) ELSE st2.timers
       IN  IF ok
           THEN /\ Len(doc2) <= MaxDocLen
                /\ doc' = doc2
                /\ sel' = <<insertPos, insertPos + Len(result)>>
                /\ domSel' = IF focus = "editor" THEN "range" ELSE domSel
                /\ highlights' = <<>>
                /\ editHistory' = logEditHistory(editHistory, r.originalText, result, r.action,
                                                 OrUndefined(r.instructions), selectedModel)
                /\ showPopup' = st2.showPopup
                /\ isAiProcessing' = st2.isAiProcessing
                /\ actionHistory' = st2.actionHistory
                /\ previousContent' = tr2.previousContent
                /\ ignoreNextChange' = st2.ignoreNextChange
                /\ isTracking' = isTracking
                /\ changeTimer' = RerenderCleanup(ActionRerenders(st, st2, r.action, r.instructions),
                                                  tr2.changeTimer)
                /\ timers' = Canon(Append(ts2, CloseTimer))
                /\ obs' = Observe(0, Outcome(result))
           ELSE /\ timers' = Canon(Append(timers, CloseTimer))
                /\ obs' = Observe(obs.shows, Outcome(result))
                /\ UNCHANGED <<doc, sel, domSel, highlights, editHistory, showPopup,
                               isAiProcessing, actionHistory, trackVars>>
    /\ Bounded(timers')
    /\ isLoading' = FALSE
    /\ showHistory' = FALSE
    /\ inflight' = Tail(inflight)
    /\ UNCHANGED <<focus, gestureVars, selectedText, selectionCoords, selectionRange, sideVars,
                   additionalInstructions>>

\* transformText rejects: catch and finally of handleAIAction.
Reject ==
    /\ inflight # <<>>
    /\ timers' = Canon(Append(timers, CloseTimer))
    /\ Bounded(timers')
    /\ isLoading' = FALSE
    /\ showHistory' = FALSE
    /\ inflight' = Tail(inflight)
    /\ obs' = Observe(obs.shows, "throw")
    /\ UNCHANGED <<doc, sel, domSel, focus, gestureVars, containerVars, isAiProcessing,
                   selectionRange, sideVars, logVars, additionalInstructions, trackVars>>

\* the timer of finally: onActionPerformed('', '', modelName)
FireClose(i) ==
    /\ i \in DOMAIN timers
    /\ timers[i].kind = "close"
    /\ timers[i].rem = 0
    /\ LET st  == [showPopup |-> showPopup, isAiProcessing |-> isAiProcessing,
                   ignoreNextChange |-> ignoreNextChange,
                   actionHistory |-> actionHistory, timers |-> RemoveAt(timers, i)]
           st2 == handleActionPerformed(st, "", "", selectedModel)
       IN  /\ showPopup' = st2.showPopup
           /\ isAiProcessing' = st2.isAiProcessing
           /\ ignoreNextChange' = st2.ignoreNextChange
           /\ isTracking' = isTracking
           /\ actionHistory' = st2.actionHistory
           /\ timers' = Canon(st2.timers)
           /\ changeTimer' = RerenderCleanup(ActionRerenders(st, st2, "", ""), changeTimer)
    /\ obs' = Observe(obs.shows, "close")
    /\ UNCHANGED <<doc, sel, domSel, focus, gestureVars, selectedText, selectionCoords,
                   highlights, selectionRange, sideVars, editHistory, popupVars, previousContent>>

\* the timer of the 'COMPLETED' marker: setIsAiProcessing(false); a change
\* of isAiProcessing re-renders and re-runs the effects that depend on it.
FireAiDone(i) ==
    /\ i \in DOMAIN timers
    /\ timers[i].kind = "aidone"
    /\ timers[i].rem = 0
    /\ isAiProcessing' = FALSE
    /\ timers' = IF isAiProcessing THEN Canon(EffectCleanup(RemoveAt(timers, i)))
                 ELSE Canon(RemoveAt(timers, i))
    /\ changeTimer' = RerenderCleanup(isAiProcessing, changeTimer)
    /\ obs' = Observe(obs.shows, "other")
    /\ UNCHANGED <<doc, sel, domSel, focus, gestureVars, containerVars, selectionRange, sideVars,
                   logVars, popupVars, previousContent, ignoreNextChange, isTracking>>

----------------------------------------------------------------------------
\* The selections of the user in runs with an invocation: a caret at the
\* start or the whole document.
ActSelections(d) == {<<1, 1>>, <<1, Len(d) + 1>>} \cap Selections(d)

EngineCount(ts) == Cardinality({i \in DOMAIN ts : ts[i].kind \in EngineKinds})

NextAct ==
    \/ \E s \in ActSelections(doc) : \E d \in {"collapsed", "range"} : SelectionChange(s, d)
    \/ FocusInput
    \/ \E v \in Instructions : TypeInstructions(v)
    \/ \E a \in AIActions : Invoke(a)
    \/ \E result \in Results \cup {<<>>} : Resolve(result)
    \/ Reject
    \/ DeleteSelection
    \/ \E i \in 1..(MaxTimers + MaxPopupTimers) : FireCheck(i)
    \/ \E i \in 1..(MaxTimers + MaxPopupTimers) : FireShow(i)
    \/ \E i \in 1..(MaxTimers + MaxPopupTimers) : FireHide(i)
    \/ \E i \in 1..(MaxTimers + MaxPopupTimers) : FireClose(i)
    \/ \E i \in 1..(MaxTimers + MaxPopupTimers) : FireAiDone(i)
    \/ FireDebounce
    \/ Tick

SpecAct == Init /\ [][NextAct]_vars

\* The runs of an invocation raced by selection changes: the user selects the
\* first character or the whole document, or puts the caret at the start.
RaceSelections(d) == {<<1, 1>>, <<1, 2>>, <<1, Len(d) + 1>>} \cap Selections(d)

NextRace ==
    \/ \E s \in RaceSelections(doc) : \E d \in {"collapsed", "range"} :
           (d = "collapsed") = (s[1] = s[2]) /\ SelectionChange(s, d)
    \/ Invoke("expand")
    \/ \E result \in Results : Resolve(result)
    \/ \E i \in 1..(MaxTimers + MaxPopupTimers) : FireCheck(i)
    \/ \E i \in 1..(MaxTimers + MaxPopupTimers) : FireShow(i)
    \/ \E i \in 1..(MaxTimers + MaxPopupTimers) : FireHide(i)
    \/ \E i \in 1..(MaxTimers + MaxPopupTimers) : FireClose(i)
    \/ Tick

SpecRace == Init /\ [][NextRace]_vars

----------------------------------------------------------------------------
\* The suppression flag of the change tracker.

\* Ctrl+I in handleKeyboardShortcut: ignoreNextChange() sets the flag in the
\* ref of the tracker; no state of a component changes.
CtrlI ==
    /\ ignoreNextChange' = TRUE
    /\ obs' = Observe(obs.shows, "other")
    /\ UNCHANGED <<doc, sel, domSel, focus, gestureVars, timers, containerVars,
                   isAiProcessing, selectionRange, sideVars, logVars, popupVars,
                   previousContent, isTracking, changeTimer>>

NextFlag ==
    \/ \E s \in ActSelections(doc) : \E d \in {"collapsed", "range"} :
           (d = "collapsed") = (s[1] = s[2]) /\ SelectionChange(s, d)
    \/ CtrlI
    \/ DeleteSelection
    \/ Invoke("expand")
    \/ \E result \in Results : Resolve(result)
    \/ \E i \in 1..(MaxTimers + MaxPopupTimers) : FireCheck(i)
    \/ \E i \in 1..(MaxTimers + MaxPopupTimers) : FireShow(i)
    \/ \E i \in 1..(MaxTimers + MaxPopupTimers) : FireHide(i)
    \/ \E i \in 1..(MaxTimers + MaxPopupTimers) : FireClose(i)
    \/ FireDebounce
    \/ Tick

\* Every callback that is due runs, and time passes; the user is not obliged
\* to do anything.
FlagTimersRun ==
    /\ WF_vars(Tick)
    /\ WF_vars(FireDebounce)
    /\ \A i \in 1..(MaxTimers + MaxPopupTimers) :
          /\ WF_vars(FireCheck(i))
          /\ WF_vars(FireShow(i))
          /\ WF_vars(FireHide(i))
          /\ WF_vars(FireClose(i))

SpecFlag == Init /\ [][NextFlag]_vars /\ FlagTimersRun

\* Runs with an invocation while the pointer is used in the editor: the
\* replacement can arrive during a gesture.  The steps that start a timer of
\* the selection engine keep at most MaxActTimers of them pending.
FewEngineTimers == EngineCount(timers') <= MaxActTimers

NextTrack ==
    \/ \E s \in ActSelections(doc) : \E d \in {"collapsed", "range"} :
           SelectionChange(s, d) /\ FewEngineTimers
    \/ MouseDownEditor(FALSE)
    \/ MouseUp("outside") /\ FewEngineTimers
    \/ FocusInput /\ FewEngineTimers
    \/ \E v \in Instructions : TypeInstructions(v)
    \/ Invoke("expand")
    \/ \E result \in Results \cup {<<>>} : Resolve(result) /\ FewEngineTimers
    \/ Reject
    \/ \E i \in 1..(MaxTimers + MaxPopupTimers) : FireCheck(i) /\ FewEngineTimers
    \/ \E i \in 1..(MaxTimers + MaxPopupTimers) : FireShow(i)
    \/ \E i \in 1..(MaxTimers + MaxPopupTimers) : FireHide(i)
    \/ \E i \in 1..(MaxTimers + MaxPopupTimers) : FireClose(i)
    \/ \E i \in 1..(MaxTimers + MaxPopupTimers) : FireAiDone(i)
    \/ FireDebounce
    \/ Tick

SpecTrack == Init /\ [][NextTrack]_vars

----------------------------------------------------------------------------
\* Runs that start with an action history saved by an earlier session:
\* useActionHistory loads 'actionHistory' from localStorage when it mounts.
SavedInstructions == <<"s1", "s2", "s3", "s4", "s5", "s6", "s7", "s8", "s9", "s10">>

SavedItem(k) ==
    [action |-> "summarize", instructions |-> SavedInstructions[k], modelName |-> selectedModel]

SavedHistory(n) == [k \in 1..n |-> SavedItem(k)]

\* an empty and a full history
SavedHistories == {SavedHistory(n) : n \in {0, MAX_ACTION_HISTORY}}

InitHist ==
    /\ doc = InitDoc
    /\ sel = <<1, 1>>
    /\ domSel = "collapsed"
    /\ focus = "editor"
    /\ pressed = FALSE
    /\ isSelecting = FALSE
    /\ isDragging = FALSE
    /\ sinceMouseUp = Ticks(MouseUpSettleMs)
    /\ timers = <<>>
    /\ showPopup = FALSE
    /\ selectedText = Null
    /\ selectionCoords = FALSE
    /\ isAiProcessing = FALSE
    /\ selectionRange = NoRange
    /\ popupBox = NoBox
    /\ touch = NoTouch
    /\ remote = NoRemote
    /\ server = NoServer
    /\ actionHistory \in SavedHistories
    /\ highlights = <<>>
    /\ isLoading = FALSE
    /\ additionalInstructions = ""
    /\ showHistory = FALSE
    /\ inflight = <<>>
    /\ previousContent = InitDoc
    /\ ignoreNextChange = FALSE
    /\ isTracking = TRUE
    /\ changeTimer = NoTimer
    /\ editHistory = <<>>
    /\ obs = [shows |-> 0, last |-> "other", invoked |-> 0, dropped |-> FALSE]

NextHist ==
    \/ SelectionChange(<<1, Len(doc) + 1>>, "range") /\ FewEngineTimers
    \/ FocusInput /\ FewEngineTimers
    \/ \E v \in {"", "x"} : TypeInstructions(v)
    \/ ToggleHistory
    \/ Invoke("expand")
    \/ \E i \in {1, Len(actionHistory)} : applyHistoricalAction(i)
    \/ \E result \in Results \cup {<<>>} : Resolve(result) /\ FewEngineTimers
    \/ Reject
    \/ \E i \in 1..(MaxTimers + MaxPopupTimers) : FireCheck(i) /\ FewEngineTimers
    \/ \E i \in 1..(MaxTimers + MaxPopupTimers) : FireShow(i)
    \/ \E i \in 1..(MaxTimers + MaxPopupTimers) : FireHide(i)
    \/ \E i \in 1..(MaxTimers + MaxPopupTimers) : FireClose(i)
    \/ Tick

SpecHist == InitHist /\ [][NextHist]_vars

----------------------------------------------------------------------------
\* Editor.tsx, the editor as one component: its change tracker.
\* trackManualEdits makes a new debounced function at every update of the
\* editor, so every update has a callback of its own ManualDebounceMs later.
ManualTimer == Timer("manual", ManualDebounceMs, FALSE, "none", FALSE)
IgnoreTimer == Timer("unignore", IgnoreResetMs, FALSE, "none", FALSE)

\* `Added approx. ${n} characters`, `Removed approx. ${n} characters`
ApproxChars(verb, n) == [verb |-> verb, chars |-> n]

\* The callback of trackManualEdits with the text of the editor when it
\* runs, on the tracker tr and the edit history h.
trackManualEdits(tr, h, currentContent) ==
    IF ~tr.isTracking
    THEN [tr |-> [tr EXCEPT !.previousContent = currentContent, !.isTracking = TRUE],
          h |-> h]
    ELSE IF tr.ignoreNextChange
    THEN [tr |-> [tr EXCEPT !.previousContent = currentContent], h |-> h]
    ELSE IF currentContent = tr.previousContent
    THEN [tr |-> tr, h |-> h]
    ELSE LET prev == tr.previousContent
             addedChars == Len(currentContent) - Len(prev)
             removedChars == Len(prev) - Len(currentContent)
             h2 == IF Len(currentContent) > Len(prev)
                   THEN IF addedChars > SignificantChars
                        THEN logEditHistory(h, prev, currentContent, "manual_add",
                                            ApproxChars("Added", addedChars), Undefined)
                        ELSE h
                   ELSE IF Len(currentContent) < Len(prev)
                   THEN IF removedChars > SignificantChars
                        THEN logEditHistory(h, prev, currentContent, "manual_delete",
                                            ApproxChars("Removed", removedChars), Undefined)
                        ELSE h
                   ELSE h
         IN  [tr |-> [tr EXCEPT !.previousContent = currentContent], h |-> h2]

\* onUpdate of the editor after the user typed or pasted text at the end.
TypeText(text) ==
    /\ Len(doc) + Len(text) <= MaxManualLen
    /\ Len(editHistory) < MaxManualLogs
    /\ Bounded(Append(timers, ManualTimer))
    /\ doc' = doc \o text
    /\ timers' = Canon(Append(timers, ManualTimer))
    /\ obs' = Observe(obs.shows, "other")
    /\ UNCHANGED <<sel, domSel, focus, gestureVars, containerVars, isAiProcessing,
                   selectionRange, sideVars, logVars, popupVars, trackVars>>

\* onUpdate of the editor after the user removed the last n characters.
EraseText(n) ==
    /\ n \in 1..Len(doc)
    /\ Len(editHistory) < MaxManualLogs
    /\ Bounded(Append(timers, ManualTimer))
    /\ doc' = SubSeq(doc, 1, Len(doc) - n)
    /\ timers' = Canon(Append(timers, ManualTimer))
    /\ obs' = Observe(obs.shows, "other")
    /\ UNCHANGED <<sel, domSel, focus, gestureVars, containerVars, isAiProcessing,
                   selectionRange, sideVars, logVars, popupVars, trackVars>>

\* addToActionHistory of Editor.tsx on the tracker: it raises the flag and
\* starts the timer that lowers it.
RaiseIgnore ==
    /\ ~ignoreNextChange
    /\ Bounded(Append(timers, IgnoreTimer))
    /\ ignoreNextChange' = TRUE
    /\ timers' = Canon(Append(timers, IgnoreTimer))
    /\ obs' = Observe(obs.shows, "other")
    /\ UNCHANGED <<doc, sel, domSel, focus, gestureVars, containerVars, isAiProcessing,
                   selectionRange, sideVars, logVars, popupVars, previousContent, isTracking,
                   changeTimer>>

FireIgnoreReset(i) ==
    /\ i \in DOMAIN timers
    /\ timers[i].kind = "unignore"
    /\ timers[i].rem = 0
    /\ timers' = Canon(RemoveAt(timers, i))
    /\ ignoreNextChange' = FALSE
    /\ obs' = Observe(obs.shows, "other")
    /\ UNCHANGED <<doc, sel, domSel, focus, gestureVars, containerVars, isAiProcessing,
                   selectionRange, sideVars, logVars, popupVars, previousContent, isTracking,
                   changeTimer>>

\* The debounced callback of trackManualEdits.
FireManual(i) ==
    /\ i \in DOMAIN timers
    /\ timers[i].kind = "manual"
    /\ timers[i].rem = 0
    /\ LET r == trackManualEdits([previousContent |-> previousContent,
                                   isTracking |-> isTracking,
                                   ignoreNextChange |-> ignoreNextChange],
                                  editHistory, doc)
       IN  /\ previousContent' = r.tr.previousContent
           /\ isTracking' = r.tr.isTracking
           /\ editHistory' = r.h
    /\ timers' = Canon(RemoveAt(timers, i))
    /\ obs' = Observe(obs.shows, "manual")
    /\ UNCHANGED <<doc, sel, domSel, focus, gestureVars, containerVars, isAiProcessing,
                   selectionRange, sideVars, actionHistory, popupVars, ignoreNextChange, changeTimer>>

\* The editor of Editor.tsx after construction: no text, tracking not started.
InitManual ==
    /\ doc = <<>>
    /\ sel = <<1, 1>>
    /\ domSel = "collapsed"
    /\ focus = "editor"
    /\ pressed = FALSE
    /\ isSelecting = FALSE
    /\ isDragging = FALSE
    /\ sinceMouseUp = Ticks(MouseUpSettleMs)
    /\ timers = <<>>
    /\ showPopup = FALSE
    /\ selectedText = Null
    /\ selectionCoords = FALSE
    /\ isAiProcessing = FALSE
    /\ selectionRange = NoRange
    /\ popupBox = NoBox
    /\ touch = NoTouch
    /\ remote = NoRemote
    /\ server = NoServer
    /\ actionHistory = <<>>
    /\ highlights = <<>>
    /\ isLoading = FALSE
    /\ additionalInstructions = ""
    /\ showHistory = FALSE
    /\ inflight = <<>>
    /\ previousContent = <<>>
    /\ ignoreNextChange = FALSE
    /\ isTracking = FALSE
    /\ changeTimer = NoTimer
    /\ editHistory = <<>>
    /\ obs = [shows |-> 0, last |-> "other", invoked |-> 0, dropped |-> FALSE]

NextManual ==
    \/ \E text \in {<<"x">>, <<"x", "x", "x", "x">>} : TypeText(text)
    \/ \E n \in {1, Len(doc)} : EraseText(n)
    \/ RaiseIgnore
    \/ \E i \in 1..MaxPopupTimers : FireManual(i)
    \/ \E i \in 1..MaxPopupTimers : FireIgnoreReset(i)
    \/ Tick

SpecManual == InitManual /\ [][NextManual]_vars

----------------------------------------------------------------------------
\* TextSelectionPopup: the place of the popup element.

\* style={{left, top}} of the render
inlineStyle(position, viewportWidth) ==
    [left |-> position.x - (IF 2 * position.x > viewportWidth THEN PopupShiftPx ELSE 0),
     top  |-> position.y + PopupGapPx]

\* The positioning effect: style.left and style.top when it has run, for the
\* rectangle of the popup and the size of the viewport.
positionEffect(position, rect, viewportWidth, viewportHeight) ==
    LET st == inlineStyle(position, viewportWidth)
        currentX == st.left
        currentY == st.top
        left1 == IF currentX + rect.width > viewportWidth
                 THEN viewportWidth - rect.width - ViewportMarginPx ELSE st.left
        left2 == IF currentX < ViewportMarginPx THEN ViewportMarginPx ELSE left1
        top1  == IF currentY + rect.height > viewportHeight
                 THEN viewportHeight - rect.height - ViewportMarginPx ELSE st.top
        top2  == IF currentY < ViewportMarginPx THEN ViewportMarginPx ELSE top1
    IN  [left |-> left2, top |-> top2]

\* The positions asked for, and the sizes of the popup (min-w-[260px],
\* max-w-[320px]).
Positions ==
    {[x |-> i * PositionStepPx, y |-> j * PositionStepPx] :
        i \in 0..(ViewportWidthPx \div PositionStepPx),
        j \in {0, 1, 20, 33, 34, 35, 36, ViewportHeightPx \div PositionStepPx}}
PopupRects == {[width |-> w, height |-> 120] : w \in {260, 320}}

\* The popup is rendered at a position and its positioning effect runs.
PlacePopup(position, rect) ==
    LET st == positionEffect(position, rect, ViewportWidthPx, ViewportHeightPx) IN
    /\ PopupVisible
    /\ popupBox' = [set |-> TRUE, x |-> position.x, y |-> position.y,
                    width |-> rect.width, height |-> rect.height,
                    viewportWidth |-> ViewportWidthPx, viewportHeight |-> ViewportHeightPx,
                    left |-> st.left, top |-> st.top]
    /\ obs' = Observe(obs.shows, "other")
    /\ UNCHANGED <<doc, sel, domSel, focus, gestureVars, timers, containerVars,
                   isAiProcessing, selectionRange, logVars, popupVars, trackVars,
                   touch, remote, server>>

NextPlace ==
    \/ SelectionChange(<<1, 2>>, "range")
    \/ \E i \in 1..MaxTimers : FireCheck(i)
    \/ \E i \in 1..MaxTimers : FireShow(i)
    \/ \E position \in Positions : \E rect \in PopupRects : PlacePopup(position, rect)
    \/ Tick

SpecPlace == Init /\ [][NextPlace]_vars

----------------------------------------------------------------------------
\* The touch handlers of the earlier useSelectionHandling.  touch holds
\* whether a finger is down, touchStartPos.current, and whether the finger
\* has moved more than the threshold on some axis since it went down.
TapSlopPx == 10
TouchSettleMs == 300

Abs(n) == IF n < 0 THEN 0 - n ELSE n

\* The points a finger can be at.
TouchPoints == {0, TapSlopPx, TapSlopPx + 1} \X {0, TapSlopPx, TapSlopPx + 1}

MovedFar(from, to) ==
    Abs(to[1] - from[1]) > TapSlopPx \/ Abs(to[2] - from[2]) > TapSlopPx

handleTouchStart(pos) ==
    /\ ~touch.down
    /\ isSelecting' = TRUE
    /\ touch' = [down |-> TRUE, start |-> pos, far |-> FALSE]
    /\ obs' = Observe(obs.shows, "other")
    /\ UNCHANGED <<doc, sel, domSel, focus, pressed, isDragging, sinceMouseUp, timers,
                   containerVars, isAiProcessing, selectionRange, logVars, popupVars,
                   trackVars, popupBox, remote, server>>

handleTouchMove(pos) ==
    /\ touch.down
    /\ touch.start # <<>>
    /\ isSelecting' = IF MovedFar(touch.start, pos) THEN TRUE ELSE isSelecting
    /\ touch' = [touch EXCEPT !.far = @ \/ MovedFar(touch.start, pos)]
    /\ obs' = Observe(obs.shows, "other")
    /\ UNCHANGED <<doc, sel, domSel, focus, pressed, isDragging, sinceMouseUp, timers,
                   containerVars, isAiProcessing, selectionRange, logVars, popupVars,
                   trackVars, popupBox, remote, server>>

handleTouchEnd ==
    /\ touch.down
    /\ Len(timers) < MaxTimers
    /\ isSelecting' = FALSE
    /\ touch' = [touch EXCEPT !.down = FALSE]
    /\ timers' = Canon(Append(timers, Timer("touchEnd", TouchSettleMs, FALSE, "none",
                                            isAiProcessing)))
    /\ obs' = Observe(obs.shows, "other")
    /\ UNCHANGED <<doc, sel, domSel, focus, pressed, isDragging, sinceMouseUp,
                   containerVars, isAiProcessing, selectionRange, logVars, popupVars,
                   trackVars, popupBox, remote, server>>

\* checkSelectionForPopup of the earlier hook: it shows and hides at once.
checkSelectionForPopupEarlier(c, proc) ==
    IF domSel = "collapsed" \/ getSelectionRange = NoRange
    THEN IF PopupVisible /\ focus = "popup"
         THEN c
         ELSE LET c2 == handleShowPopup(c, FALSE, proc)
              IN  [c2 EXCEPT !.highlights = clearAllHighlights(c2.highlights)]
    ELSE IF isValidSelectionForPopup
         THEN IF isSelecting \/ rectDegenerate
              THEN c
              ELSE handleShowPopup(c, TRUE, proc)
         ELSE LET c2 == handleShowPopup(c, FALSE, proc)
              IN  [c2 EXCEPT !.highlights = clearAllHighlights(c2.highlights)]

\* The callback of the timer of handleTouchEnd.
FireTouchEnd(i) ==
    /\ i \in DOMAIN timers
    /\ timers[i].kind = "touchEnd"
    /\ timers[i].rem = 0
    /\ LET t       == timers[i]
           elapsed == TouchSettleMs - t.rem * 50
           c2      == IF elapsed < TouchSettleMs THEN Container
                      ELSE checkSelectionForPopupEarlier(Container, t.proc)
       IN  /\ Len(c2.highlights) <= MaxHighlights
           /\ timers' = Canon(ClearCheckTimer(RemoveAt(timers, i)))
           /\ SetContainer(c2)
           /\ selectionRange' = setSelectionRange(getSelectionRange)
           /\ obs' = Observe(IF c2.showPopup /\ c2 # Container THEN CountShow ELSE obs.shows,
                             IF elapsed < TouchSettleMs THEN "touchSkip" ELSE "touchCheck")
    /\ UNCHANGED <<doc, sel, domSel, focus, gestureVars, isAiProcessing, logVars,
                   popupVars, trackVars, sideVars>>

\* A touch selection: the browser changes the selection under the finger.
TouchSelect(s, d) ==
    /\ touch.down
    /\ sel' = s
    /\ domSel' = d
    /\ obs' = Observe(obs.shows, "other")
    /\ UNCHANGED <<doc, focus, gestureVars, timers, containerVars, isAiProcessing,
                   selectionRange, logVars, popupVars, trackVars, sideVars>>

NextTouch ==
    \/ \E pos \in TouchPoints : handleTouchStart(pos)
    \/ \E pos \in TouchPoints : handleTouchMove(pos)
    \/ handleTouchEnd
    \/ \E i \in 1..MaxTimers : FireTouchEnd(i)
    \/ \E s \in CharSelections(doc) : \E d \in DomOf(s) : TouchSelect(s, d)
    \/ Tick

SpecTouch == Init /\ [][NextTouch]_vars

----------------------------------------------------------------------------
\* geminiService.logEditHistory with its two stores.  editHistory is the
\* list in localStorage; remote holds window.location.hostname (its labels),
\* the POSTs to /api/history in flight and, for every finished call, how it
\* went and how its promise settled.
MaxLogCalls == 3

Hosts == {<<"localhost">>, <<"127.0.0.1">>, <<"editor", "local">>, <<"example", "com">>}

\* hostname === 'localhost' || hostname === '127.0.0.1' || hostname.includes('.local')
isDevHost(h) ==
    h = <<"localhost">> \/ h = <<"127.0.0.1">> \/ \E i \in 2..Len(h) : h[i] = "local"

PostOutcomes == {"ok", "notOk", "reject"}

\* A rejected fetch leaves the try block as an exception that nothing catches.
afterFetchUncaught(outcome) == IF outcome = "reject" THEN "rejected" ELSE "resolved"

\* What follows the awaited fetch: an ok response ends the call, a non-ok
\* response and a rejection are logged as warnings; the promise resolves.
afterFetch(outcome) ==
    CASE outcome = "ok" -> "resolved"
      [] outcome = "notOk" -> "resolved"
      [] OTHER -> "resolved"

LogCalls == Len(remote.posts) + Len(remote.settled)

\* A call of logEditHistory up to its await: the empty action returns, a
\* throwing localStorage.setItem is caught, otherwise the entry is written
\* and on a development host the POST is sent.
LogEdit(originalText, action, storageOk) ==
    /\ LogCalls < MaxLogCalls
    /\ LET h2    == logEditHistory(editHistory, originalText, "x", action, Undefined,
                                   selectedModel)
           entry == h2[1]
       IN  IF action = ""
           THEN /\ editHistory' = editHistory
                /\ remote' = [remote EXCEPT !.settled =
                                 Append(@, [entry |-> Null, how |-> "skipped",
                                            promise |-> "resolved"])]
           ELSE IF ~storageOk
           THEN /\ editHistory' = editHistory
                /\ remote' = [remote EXCEPT !.settled =
                                 Append(@, [entry |-> entry, how |-> "storage",
                                            promise |-> "resolved"])]
           ELSE /\ editHistory' = h2
                /\ remote' = IF isDevHost(remote.host)
                             THEN [remote EXCEPT !.posts = Append(@, entry)]
                             ELSE [remote EXCEPT !.settled =
                                      Append(@, [entry |-> entry, how |-> "local",
                                                 promise |-> "resolved"])]
    /\ obs' = Observe(obs.shows, "other")
    /\ UNCHANGED <<doc, sel, domSel, focus, gestureVars, timers, containerVars,
                   isAiProcessing, selectionRange, actionHistory, popupVars, trackVars,
                   popupBox, touch, server>>

\* The POST of a call settles and the call runs to its end.
SettlePost(i, outcome) ==
    /\ i \in DOMAIN remote.posts
    /\ remote' = [remote EXCEPT !.posts = RemoveAt(@, i),
                                !.settled = Append(@, [entry |-> remote.posts[i],
                                                       how |-> outcome,
                                                       promise |-> afterFetch(outcome)])]
    /\ obs' = Observe(obs.shows, "other")
    /\ UNCHANGED <<doc, sel, domSel, focus, gestureVars, timers, containerVars,
                   isAiProcessing, selectionRange, logVars, popupVars, trackVars,
                   popupBox, touch, server>>

InitLog ==
    /\ doc = InitDoc
    /\ sel = <<1, 1>>
    /\ domSel = "collapsed"
    /\ focus = "editor"
    /\ pressed = FALSE
    /\ isSelecting = FALSE
    /\ isDragging = FALSE
    /\ sinceMouseUp = Ticks(MouseUpSettleMs)
    /\ timers = <<>>
    /\ showPopup = FALSE
    /\ selectedText = Null
    /\ selectionCoords = FALSE
    /\ isAiProcessing = FALSE
    /\ selectionRange = NoRange
    /\ popupBox = NoBox
    /\ touch = NoTouch
    /\ remote \in {[NoRemote EXCEPT !.host = h] : h \in Hosts}
    /\ server = NoServer
    /\ actionHistory = <<>>
    /\ highlights = <<>>
    /\ isLoading = FALSE
    /\ additionalInstructions = ""
    /\ showHistory = FALSE
    /\ inflight = <<>>
    /\ previousContent = InitDoc
    /\ ignoreNextChange = FALSE
    /\ isTracking = TRUE
    /\ changeTimer = NoTimer
    /\ editHistory = <<>>
    /\ obs = [shows |-> 0, last |-> "other", invoked |-> 0, dropped |-> FALSE]

NextLog ==
    \/ \E originalText \in {"a", "b"} : \E action \in {"expand", "manual_add", ""} :
           \E storageOk \in BOOLEAN : LogEdit(originalText, action, storageOk)
    \/ \E i \in 1..MaxLogCalls : \E outcome \in PostOutcomes : SettlePost(i, outcome)

SpecLog == InitLog /\ [][NextLog]_vars

----------------------------------------------------------------------------
\* The route /api/history on the server.  server.file is edit-history.json:
\* missing, holding a JSON array of events, or partial (opened for writing
\* and truncated, the new content not yet written: fs.promises.writeFile is
\* not atomic).  server.reqs holds, for every POST request, where its handler
\* stands and the history it has read.  An event is named by the number of
\* its request; 0 is an event stored before.
MaxRequests == 2

IdleRequest == [pc |-> "idle", history |-> <<>>]
JsonFile(events) == [state |-> "json", events |-> events]
StoredBefore == <<0>>

ServerStep(id, req, file) ==
    /\ server' = [file |-> file, reqs |-> [server.reqs EXCEPT ![id] = req]]
    /\ obs' = Observe(obs.shows, "other")
    /\ UNCHANGED <<doc, sel, domSel, focus, gestureVars, timers, containerVars,
                   isAiProcessing, selectionRange, logVars, popupVars, trackVars,
                   popupBox, touch, remote>>

\* POST up to addServerHistoryEvent: a body without originalText, newText
\* or action is answered with status 400.
POST(id, valid) ==
    /\ id \in DOMAIN server.reqs
    /\ server.reqs[id].pc = "idle"
    /\ ServerStep(id, [server.reqs[id] EXCEPT !.pc = IF valid THEN "init1" ELSE "bad"],
                  server.file)

\* initLogFile up to its await: existsSync; called by addServerHistoryEvent
\* and again by getServerHistoryEvents.
initLogFile(id) ==
    /\ id \in DOMAIN server.reqs
    /\ server.reqs[id].pc \in {"init1", "init2"}
    /\ LET first == server.reqs[id].pc = "init1"
           next  == IF server.file.state = "missing"
                    THEN IF first THEN "init1t" ELSE "init2t"
                    ELSE IF first THEN "init2" ELSE "read"
       IN  ServerStep(id, [server.reqs[id] EXCEPT !.pc = next], server.file)

\* writeFile of initLogFile and of addServerHistoryEvent opens the file and
\* truncates it ...
OpenForWrite(id) ==
    /\ id \in DOMAIN server.reqs
    /\ server.reqs[id].pc \in {"init1t", "init2t", "trunc"}
    /\ LET pc   == server.reqs[id].pc
           next == IF pc = "init1t" THEN "init1w" ELSE IF pc = "init2t" THEN "init2w" ELSE "write"
       IN  ServerStep(id, [server.reqs[id] EXCEPT !.pc = next],
                      [state |-> "partial", events |-> <<>>])

\* ... and then writes the content: the empty array of initLogFile,
InitWrite(id) ==
    /\ id \in DOMAIN server.reqs
    /\ server.reqs[id].pc \in {"init1w", "init2w"}
    /\ ServerStep(id, [server.reqs[id] EXCEPT !.pc = IF @ = "init1w" THEN "init2" ELSE "read"],
                  JsonFile(<<>>))

\* getServerHistoryEvents from readFile on: the parsed array, or the empty
\* array when readFile or JSON.parse throws.
getServerHistoryEvents(file) == IF file.state = "json" THEN file.events ELSE <<>>

ReadFile(id) ==
    /\ id \in DOMAIN server.reqs
    /\ server.reqs[id].pc = "read"
    /\ ServerStep(id, [pc |-> "trunc",
                       history |-> Append(getServerHistoryEvents(server.file), id)],
                  server.file)

\* or the history with the new event of addServerHistoryEvent; POST then
\* answers { success: true }.
WriteFile(id) ==
    /\ id \in DOMAIN server.reqs
    /\ server.reqs[id].pc = "write"
    /\ ServerStep(id, [server.reqs[id] EXCEPT !.pc = "ok"], JsonFile(server.reqs[id].history))

InitServer ==
    /\ doc = InitDoc
    /\ sel = <<1, 1>>
    /\ domSel = "collapsed"
    /\ focus = "editor"
    /\ pressed = FALSE
    /\ isSelecting = FALSE
    /\ isDragging = FALSE
    /\ sinceMouseUp = Ticks(MouseUpSettleMs)
    /\ timers = <<>>
    /\ showPopup = FALSE
    /\ selectedText = Null
    /\ selectionCoords = FALSE
    /\ isAiProcessing = FALSE
    /\ selectionRange = NoRange
    /\ popupBox = NoBox
    /\ touch = NoTouch
    /\ remote = NoRemote
    /\ server \in {[file |-> f, reqs |-> [id \in 1..MaxRequests |-> IdleRequest]] :
                      f \in {[state |-> "missing", events |-> <<>>], JsonFile(<<>>),
                             JsonFile(StoredBefore)}}
    /\ actionHistory = <<>>
    /\ highlights = <<>>
    /\ isLoading = FALSE
    /\ additionalInstructions = ""
    /\ showHistory = FALSE
    /\ inflight = <<>>
    /\ previousContent = InitDoc
    /\ ignoreNextChange = FALSE
    /\ isTracking = TRUE
    /\ changeTimer = NoTimer
    /\ editHistory = <<>>
    /\ obs = [shows |-> 0, last |-> "other", invoked |-> 0, dropped |-> FALSE]

NextServer ==
    \/ \E id \in 1..MaxRequests : \E valid \in BOOLEAN : POST(id, valid)
    \/ \E id \in 1..MaxRequests : initLogFile(id)
    \/ \E id \in 1..MaxRequests : OpenForWrite(id)
    \/ \E id \in 1..MaxRequests : InitWrite(id)
    \/ \E id \in 1..MaxRequests : ReadFile(id)
    \/ \E id \in 1..MaxRequests : WriteFile(id)

SpecServer == InitServer /\ [][NextServer]_vars

----------------------------------------------------------------------------
\* Properties of the selection engine.

\* The step runs the callback of a due timer of the given kind.
TimerFires(kind, i) ==
    /\ i \in DOMAIN timers
    /\ timers[i].kind = kind
    /\ timers[i].rem = 0
    /\ timers' = Canon(RemoveAt(timers, i))

ContainerChanges ==
    <<showPopup, selectedText, selectionCoords, highlights>>' # <<showPopup, selectedText, selectionCoords, highlights>>

\* C1: for a settled selection the timers make one show request; between two
\* changes of the selection or starts of a gesture the overlapping check and
\* show timers never call onShowPopup(true) a second time.
C1_ShowOnce == obs.shows <= 1

\* C2: of a sequence of selection-change events only the last one acts on the
\* popup; a show or hide timer that descends from an earlier event never
\* runs and changes the popup.
C2_EarlierTimersSuperseded ==
    [][~(\E i \in DOMAIN timers :
            /\ timers[i].gen = "old"
            /\ TimerFires("show", i) \/ TimerFires("hide", i)
            /\ ContainerChanges)]_vars

\* C3: while the popup is visible and the focus is in its instructions input,
\* the delayed hide timer that fires does not hide the popup.
C3_InputKeepsPopup ==
    [][(PopupVisible /\ focus = "popup" /\ focus' = "popup"
            /\ (\E i \in DOMAIN timers : TimerFires("hide", i)))
          => PopupVisible']_vars

\* C4: while a gesture is active (isSelecting or isDragging) and the popup is
\* hidden, a show timer that fires does not make the popup visible.
C4_NoShowDuringGesture ==
    [][((isSelecting \/ isDragging) /\ ~PopupVisible /\ (\E i \in DOMAIN timers : TimerFires("show", i)))
          => ~PopupVisible']_vars

C6_SuccessAppendsOneItem ==
    [][obs'.last = "success" =>
          actionHistory' = <<[action |-> inflight[1].action,
                              instructions |-> inflight[1].instructions,
                              modelName |-> selectedModel]>> \o actionHistory]_vars

\* C7: after a successful invocation the highlight list holds a highlight
\* from the insert position over the length of the result.
C7_ResultHighlighted ==
    [][obs'.last = "success" =>
          \E i \in DOMAIN highlights' :
              highlights'[i] = [from |-> sel'[1], to |-> sel'[2]]]_vars

\* C8: the text sent to the collaborator is the text of the document inside
\* the selection of the editor at the invocation, the originalText.
C8_SentTextIsSelection ==
    \A i \in DOMAIN inflight : inflight[i].text = inflight[i].originalText

\* C9: no stored highlight ends beyond the size of the document once the
\* update of an edit has been handled.
C9_NoHighlightBeyondDocument ==
    \A i \in DOMAIN highlights : highlights[i].to <= docSize(doc)

\* C10: when the collaborator rejects or returns an empty result, the rest
\* of handleAIAction leaves the document, the action history and the edit
\* history as they were, and so does the close signal that follows.
C10_FailureChangesNothing ==
    [][obs'.last \in {"empty", "throw", "close"} =>
          /\ doc' = doc
          /\ actionHistory' = actionHistory
          /\ editHistory' = editHistory]_vars

C10_FailureSeen ==
    /\ obs.last \in {"empty", "throw"}
    /\ obs.invoked > 0
    /\ doc = InitDoc
    /\ actionHistory = <<>>
    /\ editHistory = <<>>

\* C11: after a successful invocation the close signal that the popup sends
\* later does not hide the popup.
C11_PopupStaysAfterSuccess ==
    [][(obs'.last = "close" /\ editHistory # <<>> /\ PopupVisible) => PopupVisible']_vars

\* C12: after a failed invocation (rejected or empty result, nothing logged)
\* the close signal does not hide the popup.
C12_PopupStaysAfterFailure ==
    [][(obs'.last = "close" /\ editHistory = <<>> /\ actionHistory = <<>> /\ PopupVisible)
          => PopupVisible']_vars

\* C13: at most one invocation of the transformation is in flight at any
\* time.
C13_OneInvocationInFlight == Len(inflight) <= 1

\* C14: a press of the forced-show shortcut with a non-collapsed selection
\* leaves the popup visible in the same step; a hide timer that is due right
\* after the press, hence started before it, does not hide the popup; a
\* press with a collapsed selection leaves the popup state as it was.
C14_ForcedShow ==
    /\ [][obs'.last = "force" => PopupVisible']_vars
    /\ [][(obs.last = "force" /\ PopupVisible /\ \E i \in DOMAIN timers : TimerFires("hide", i))
             => PopupVisible']_vars
    /\ [][obs'.last = "forceNone"
             => UNCHANGED <<showPopup, selectedText, selectionCoords>>]_vars

\* C15: a press of Escape, whatever the popup state, leaves no highlight and
\* leaves the popup hidden.
C15_EscapeClosesPopup ==
    [][Escape => (highlights' = <<>> /\ ~PopupVisible')]_vars

\* C16: a mouse-down on the popup, on its input or elsewhere, leaves the
\* gesture flags isSelecting and isDragging and the selection of the document
\* as they were.
C16_PopupMouseDownKeepsGesture ==
    [][obs'.last = "popupDown" => UNCHANGED <<isSelecting, isDragging, sel>>]_vars

\* A mouse-down on the input of the popup while isSelecting was set.
C16_PopupPressedWhileSelecting ==
    obs.last = "popupDown" /\ isSelecting /\ focus = "popup" /\ pressed

\* C17: when the pointer is released and a selection-change signal was
\* filtered, checkSelectionForPopup eventually runs with the pointer released,
\* unless a new gesture begins first.
C17_DroppedSignalEvaluated ==
    (obs.dropped /\ ~pressed /\ ~isDragging) ~> (~obs.dropped \/ pressed \/ isDragging)

\* C18: the action history never holds more than MAX_ACTION_HISTORY items;
\* a step that changes it puts one new item in front, keeps the items it
\* had in their order, unmodified, and drops only the oldest one when the
\* history was full.
C18_HistoryBounded ==
    /\ [](Len(actionHistory) <= MAX_ACTION_HISTORY)
    /\ [][actionHistory' # actionHistory =>
             /\ Len(actionHistory') =
                    (IF Len(actionHistory) < MAX_ACTION_HISTORY
                     THEN Len(actionHistory) + 1 ELSE MAX_ACTION_HISTORY)
             /\ \A k \in 2..Len(actionHistory') : actionHistory'[k] = actionHistory[k - 1]
             /\ actionHistory'[1].action = inflight[1].action]_vars

C18_FullHistoryEvicted ==
    /\ Len(actionHistory) = MAX_ACTION_HISTORY
    /\ actionHistory[1].action = "expand"
    /\ actionHistory[MAX_ACTION_HISTORY] = SavedItem(MAX_ACTION_HISTORY - 1)

\* C19: at every debounced check of trackManualEdits made while the
\* suppression flag is down, with d the length of the text minus the length of
\* previousContent: a manual-addition entry is logged exactly when d > 3, a
\* manual-deletion entry exactly when d < -3, nothing when |d| <= 3, and
\* previousContent becomes the text.
C19_ManualEditThreshold ==
    [][(obs'.last = "manual" /\ ~ignoreNextChange) =>
          LET d == Len(doc) - Len(previousContent)
              logged(kind) == /\ Len(editHistory') = Len(editHistory) + 1
                              /\ editHistory'[1].action = kind
          IN  /\ logged("MANUAL_ADD") <=> d > SignificantChars
              /\ logged("MANUAL_DELETE") <=> d < 0 - SignificantChars
              /\ (d <= SignificantChars /\ d >= 0 - SignificantChars)
                     => editHistory' = editHistory
              /\ previousContent' = doc]_vars

\* C20: re-applying an item of the recent-actions list sends the item's
\* action with the item's stored instructions, the ones the input shows
\* after the click.
C20_ReapplySendsStoredInstructions ==
    [][obs'.last = "reapply" =>
          inflight'[Len(inflight')].instructions = additionalInstructions']_vars

\* C21: after an action that completed with its replacement, the
\* instructions field of the popup is empty.
C21_InstructionsCleared ==
    [][obs'.last = "success" => additionalInstructions' = ""]_vars

\* C22: a check that finds, outside a gesture, a valid selection whose
\* rectangle is degenerate still leads to the popup: it leaves the popup
\* visible or a show timer pending.
C22_DegenerateRectStillShown ==
    [][((\E i \in DOMAIN timers : FireCheck(i))
          /\ domSel = "zero" /\ isValidSelectionForPopup /\ ~isSelecting /\ ~isDragging)
         => (PopupVisible' \/ \E j \in DOMAIN timers' : timers'[j].kind = "show")]_vars

\* C23: a placed popup that fits the viewport with its margins lies inside
\* the viewport with the margin on all four sides.
C23_PopupInsideViewport ==
    (popupBox.set /\ popupBox.width + 2 * ViewportMarginPx <= popupBox.viewportWidth
                  /\ popupBox.height + 2 * ViewportMarginPx <= popupBox.viewportHeight)
        => /\ ViewportMarginPx <= popupBox.left
           /\ popupBox.left + popupBox.width <= popupBox.viewportWidth - ViewportMarginPx
           /\ ViewportMarginPx <= popupBox.top
           /\ popupBox.top + popupBox.height <= popupBox.viewportHeight - ViewportMarginPx


\* C24: a finger that is down and has not moved more than 10 pixels on any
\* axis since it went down (a tap so far) has not set the gesture-active flag.
C24_TapIsNoGesture == (touch.down /\ ~touch.far) => ~isSelecting

\* C25: the local write comes first and does not depend on the remote mirror:
\* the entry of every POST in flight is in the local edit history, and so is
\* the entry of every POST that was rejected or answered with a non-OK
\* status; no call of logEditHistory has thrown.
C25_LocalFirst ==
    /\ \A i \in DOMAIN remote.posts :
           \E k \in DOMAIN editHistory : editHistory[k] = remote.posts[i]
    /\ \A i \in DOMAIN remote.settled :
           /\ remote.settled[i].promise = "resolved"
           /\ remote.settled[i].how \in {"notOk", "reject"}
                  => \E k \in DOMAIN editHistory : editHistory[k] = remote.settled[i].entry

\* Each way the POST can fail has happened to some call.
C25_RemoteFailed ==
    /\ \E i \in DOMAIN remote.settled : remote.settled[i].how = "reject"
    /\ \E i \in DOMAIN remote.settled : remote.settled[i].how = "notOk"

\* C26: a show timer that fires while the selection is collapsed does not
\* make the popup visible, and a hide timer that fires while a valid
\* non-collapsed selection exists neither hides a visible popup nor changes
\* the highlights.
C26_StaleTimerIsNoOp ==
    /\ [][((\E i \in DOMAIN timers : TimerFires("show", i)) /\ domSel = "collapsed")
             => (PopupVisible' => PopupVisible)]_vars
    /\ [][((\E i \in DOMAIN timers : TimerFires("hide", i))
                /\ domSel # "collapsed" /\ isValidSelectionForPopup)
             => ((PopupVisible => PopupVisible') /\ highlights' = highlights)]_vars

\* C27: at most one timer of each purpose of the selection engine (selection
\* check, show, hide) is pending.
C27_OneTimerPerKind ==
    \A kind \in {"check", "show", "hide"} :
        Cardinality({i \in DOMAIN timers : timers[i].kind = kind}) <= 1

\* The document d with the range from..to replaced by text, and the documents
\* that d becomes when text is inserted somewhere and nothing is deleted.
ReplaceRange(d, from, to, text) == SubSeq(d, 1, from - 1) \o text \o SubSeq(d, to, Len(d))
Insertions(d, text) == {ReplaceRange(d, p, p, text) : p \in 1..(Len(d) + 1)}

\* C28: when the selection of the editor is no longer the range captured at
\* the invocation, a successful response replaces that captured range or
\* deletes nothing: the document is unchanged, or the captured range is
\* replaced by the result, or the result is inserted and no text is removed.
C28_CapturedRangeReplaced ==
    [][(inflight # <<>> /\ obs'.last = "success"
            /\ sel # <<inflight[1].from, inflight[1].to>>
            /\ inflight[1].to <= Len(doc) + 1)
          => \/ doc' = doc
             \/ \E result \in Results :
                    \/ doc' = ReplaceRange(doc, inflight[1].from, inflight[1].to, result)
                    \/ doc' \in Insertions(doc, result)]_vars

\* C29: a hide timer that becomes due after the focus has landed inside the
\* visible popup leaves the popup visible and the highlights as they are.
C29_FocusInPopupCancelsHide ==
    [][(PopupVisible /\ focus = "popup" /\ (\E i \in DOMAIN timers : TimerFires("hide", i)))
          => (PopupVisible' /\ highlights' = highlights)]_vars

\* C30: a debounced check of the manual-edit tracker that runs with the
\* suppression flag set clears the flag, takes the current content as
\* previousContent and logs nothing.
C30_FlagConsumedAtCheck ==
    [][(obs'.last = "manual" /\ isTracking /\ ignoreNextChange)
          => (~ignoreNextChange' /\ previousContent' = doc /\ editHistory' = editHistory)]_vars

\* C31: whenever the suppression flag is set it is eventually cleared, also
\* when the user changes the document no more.
C31_FlagEventuallyCleared == ignoreNextChange ~> ~ignoreNextChange

\* C32: a manual change of the document made after an AI replacement has
\* completed and its debounce cycle is over is taken up by the change
\* tracker: the update starts the debounce timer that reports the new content.
C32_ManualChangeAfterAITracked ==
    [][(DeleteSelection /\ actionHistory # <<>> /\ inflight = <<>> /\ ~isLoading
            /\ ~isAiProcessing /\ changeTimer = NoTimer /\ doc' # doc)
          => (changeTimer' # NoTimer /\ changeTimer'.content = doc')]_vars

\* C33: the updates of a burst share one debounced evaluation: an update
\* that arrives while an evaluation is pending replaces it, so at most one
\* evaluation of the manual-edit tracker is pending at any time.
C33_OneEvaluationPerBurst ==
    Cardinality({i \in DOMAIN timers : timers[i].kind = "manual"}) <= 1

\* C34: while the popup is visible some highlight is applied and covers the
\* text the popup acts on.
C34_VisiblePopupHasHighlight ==
    PopupVisible =>
        \E i \in DOMAIN highlights :
            /\ Drawable(highlights[i])
            /\ textBetween(doc, highlights[i].from, highlights[i].to) = selectedText

\* C35: the highlight list holds at most one highlight.
C35_AtMostOneHighlight == Len(highlights) <= 1

\* C36: the renderer makes no decoration for a stored highlight with
\* from >= to or with to beyond the size of the document.
C36_NoInvalidDecoration ==
    \A i \in DOMAIN decorations(highlights) :
        /\ decorations(highlights)[i].from < decorations(highlights)[i].to
        /\ decorations(highlights)[i].to <= docSize(doc)

\* C37: a mouse press in the editor sets the gesture-active flag, and while
\* the button stays down the flag stays set.
C37_FlagHeldWhilePressed ==
    /\ [][(~pressed /\ pressed' /\ focus' = "editor") => isSelecting']_vars
    /\ [][(pressed /\ pressed' /\ isSelecting) => isSelecting']_vars

\* C38: while an invocation is in flight no step hides the visible popup.
C38_NoHideWhileInFlight ==
    [][(inflight # <<>> /\ inflight' # <<>> /\ PopupVisible) => PopupVisible']_vars

\* The touch-end timers that are pending.
TouchEndTimers(ts) == {i \in DOMAIN ts : ts[i].kind = "touchEnd"}

\* C39: the delayed check of a touch-end runs only when no later touch-end
\* has happened within its delay, that is, when no other touch-end timer is
\* pending; and the timer of the only touch-end does run the check.
C39_OnlyLatestTouchEndChecks ==
    /\ [][obs'.last = "touchCheck" => TouchEndTimers(timers') = {}]_vars
    /\ [][(obs'.last \in {"touchCheck", "touchSkip"} /\ Cardinality(TouchEndTimers(timers)) = 1)
             => obs'.last = "touchCheck"]_vars

\* The events in the log file.
Logged == {server.file.events[k] : k \in DOMAIN server.file.events}

\* C40: when no POST request is being handled, the log file holds the event
\* of every request that was answered with success.
C40_NoEventLost ==
    (\A id \in DOMAIN server.reqs : server.reqs[id].pc \in {"idle", "ok", "bad"})
        => \A id \in DOMAIN server.reqs : server.reqs[id].pc = "ok" => id \in Logged

====
